---- MODULE Spec2Model ----
(***************************************************************************)
(* include/mbedtls/config_adjust_legacy_crypto.h: the automatic enabling   *)
(* of configuration symbols.  The header is a list of conditional blocks   *)
(* that the C preprocessor evaluates once, from top to bottom, against the *)
(* macros defined so far.  A macro is a flag: active iff defined.          *)
(***************************************************************************)
EXTENDS Naturals, FiniteSets, Sequences

VARIABLES base, defined, pc, guard, includes, peer

vars == <<base, defined, pc, guard, includes, peer>>

(* Largest number of symbols the user configuration enables explicitly. *)
MaxBase == 3

(* Largest number of times the translation unit includes the header. *)
MaxIncludes == 2

(***************************************************************************)
(* The symbols the header reads or defines.                                *)
(***************************************************************************)
MBEDTLS_MD_C == "MBEDTLS_MD_C"
MBEDTLS_MD_LIGHT == "MBEDTLS_MD_LIGHT"
MBEDTLS_ECJPAKE_C == "MBEDTLS_ECJPAKE_C"
MBEDTLS_PEM_PARSE_C == "MBEDTLS_PEM_PARSE_C"
MBEDTLS_ENTROPY_C == "MBEDTLS_ENTROPY_C"
MBEDTLS_PK_C == "MBEDTLS_PK_C"
MBEDTLS_PKCS12_C == "MBEDTLS_PKCS12_C"
MBEDTLS_RSA_C == "MBEDTLS_RSA_C"
MBEDTLS_SSL_TLS_C == "MBEDTLS_SSL_TLS_C"
MBEDTLS_X509_USE_C == "MBEDTLS_X509_USE_C"
MBEDTLS_X509_CREATE_C == "MBEDTLS_X509_CREATE_C"
MBEDTLS_ECP_C == "MBEDTLS_ECP_C"
MBEDTLS_PK_PARSE_EC_EXTENDED == "MBEDTLS_PK_PARSE_EC_EXTENDED"
MBEDTLS_PK_PARSE_EC_COMPRESSED == "MBEDTLS_PK_PARSE_EC_COMPRESSED"
MBEDTLS_PSA_BUILTIN_KEY_TYPE_ECC_KEY_PAIR_DERIVE == "MBEDTLS_PSA_BUILTIN_KEY_TYPE_ECC_KEY_PAIR_DERIVE"
MBEDTLS_ECP_LIGHT == "MBEDTLS_ECP_LIGHT"
MBEDTLS_PK_PARSE_C == "MBEDTLS_PK_PARSE_C"
MBEDTLS_USE_PSA_CRYPTO == "MBEDTLS_USE_PSA_CRYPTO"
PSA_WANT_ALG_ECDH == "PSA_WANT_ALG_ECDH"
MBEDTLS_ECDH_C == "MBEDTLS_ECDH_C"
MBEDTLS_CAN_ECDH == "MBEDTLS_CAN_ECDH"
MBEDTLS_ECDSA_C == "MBEDTLS_ECDSA_C"
MBEDTLS_PK_CAN_ECDSA_SIGN == "MBEDTLS_PK_CAN_ECDSA_SIGN"
MBEDTLS_PK_CAN_ECDSA_VERIFY == "MBEDTLS_PK_CAN_ECDSA_VERIFY"
PSA_WANT_ALG_ECDSA == "PSA_WANT_ALG_ECDSA"
PSA_WANT_KEY_TYPE_ECC_KEY_PAIR_BASIC == "PSA_WANT_KEY_TYPE_ECC_KEY_PAIR_BASIC"
PSA_WANT_KEY_TYPE_ECC_PUBLIC_KEY == "PSA_WANT_KEY_TYPE_ECC_PUBLIC_KEY"
MBEDTLS_PK_CAN_ECDSA_SOME == "MBEDTLS_PK_CAN_ECDSA_SOME"
MBEDTLS_PSA_CRYPTO_C == "MBEDTLS_PSA_CRYPTO_C"
MBEDTLS_PSA_CRYPTO_CLIENT == "MBEDTLS_PSA_CRYPTO_CLIENT"
MBEDTLS_PK_WRITE_C == "MBEDTLS_PK_WRITE_C"
MBEDTLS_PK_HAVE_ECC_KEYS == "MBEDTLS_PK_HAVE_ECC_KEYS"

Flags ==
    { MBEDTLS_MD_C, MBEDTLS_MD_LIGHT, MBEDTLS_ECJPAKE_C, MBEDTLS_PEM_PARSE_C,
      MBEDTLS_ENTROPY_C, MBEDTLS_PK_C, MBEDTLS_PKCS12_C, MBEDTLS_RSA_C,
      MBEDTLS_SSL_TLS_C, MBEDTLS_X509_USE_C, MBEDTLS_X509_CREATE_C,
      MBEDTLS_ECP_C, MBEDTLS_PK_PARSE_EC_EXTENDED,
      MBEDTLS_PK_PARSE_EC_COMPRESSED,
      MBEDTLS_PSA_BUILTIN_KEY_TYPE_ECC_KEY_PAIR_DERIVE, MBEDTLS_ECP_LIGHT,
      MBEDTLS_PK_PARSE_C, MBEDTLS_USE_PSA_CRYPTO, PSA_WANT_ALG_ECDH,
      MBEDTLS_ECDH_C, MBEDTLS_CAN_ECDH, MBEDTLS_ECDSA_C,
      MBEDTLS_PK_CAN_ECDSA_SIGN, MBEDTLS_PK_CAN_ECDSA_VERIFY,
      PSA_WANT_ALG_ECDSA, PSA_WANT_KEY_TYPE_ECC_KEY_PAIR_BASIC,
      PSA_WANT_KEY_TYPE_ECC_PUBLIC_KEY, MBEDTLS_PK_CAN_ECDSA_SOME,
      MBEDTLS_PSA_CRYPTO_C, MBEDTLS_PSA_CRYPTO_CLIENT, MBEDTLS_PK_WRITE_C,
      MBEDTLS_PK_HAVE_ECC_KEYS }

(***************************************************************************)
(* A conditional block: `when` is the #if condition in disjunctive form,   *)
(* each disjunct listing the symbols that must be defined (def) and those  *)
(* that must not be (undef); `defines` are the symbols the block #defines. *)
(***************************************************************************)
Term(d, u) == [def |-> d, undef |-> u]

(* #if defined(MBEDTLS_MD_C) *)
MdLightFromMdC ==
    [ when    |-> { Term({MBEDTLS_MD_C}, {}) },
      defines |-> { MBEDTLS_MD_LIGHT } ]

(* MdLightFromUsers with its last line, defined(MBEDTLS_X509_CREATE_C),
   lost. *)
MdLightFromUsers_NoX509Create ==
    [ when    |-> { Term({f}, {}) : f \in
                      { MBEDTLS_ECJPAKE_C, MBEDTLS_PEM_PARSE_C,
                        MBEDTLS_ENTROPY_C, MBEDTLS_PK_C, MBEDTLS_PKCS12_C,
                        MBEDTLS_RSA_C, MBEDTLS_SSL_TLS_C,
                        MBEDTLS_X509_USE_C } },
      defines |-> { MBEDTLS_MD_LIGHT } ]

(* MdLightFromUsers without defined(MBEDTLS_RSA_C), leaving RSA to reach
   MBEDTLS_MD_LIGHT through MBEDTLS_PK_C. *)
MdLightFromUsers_NoRsa ==
    [ when    |-> { Term({f}, {}) : f \in
                      { MBEDTLS_ECJPAKE_C, MBEDTLS_PEM_PARSE_C,
                        MBEDTLS_ENTROPY_C, MBEDTLS_PK_C, MBEDTLS_PKCS12_C,
                        MBEDTLS_SSL_TLS_C, MBEDTLS_X509_USE_C,
                        MBEDTLS_X509_CREATE_C } },
      defines |-> { MBEDTLS_MD_LIGHT } ]

(* #if defined(MBEDTLS_ECJPAKE_C) || ... || defined(MBEDTLS_X509_CREATE_C) *)
MdLightFromUsers ==
    [ when    |-> { Term({f}, {}) : f \in
                      { MBEDTLS_ECJPAKE_C, MBEDTLS_PEM_PARSE_C,
                        MBEDTLS_ENTROPY_C, MBEDTLS_PK_C, MBEDTLS_PKCS12_C,
                        MBEDTLS_RSA_C, MBEDTLS_SSL_TLS_C, MBEDTLS_X509_USE_C,
                        MBEDTLS_X509_CREATE_C } },
      defines |-> { MBEDTLS_MD_LIGHT } ]

(* EcpLight with its first line, defined(MBEDTLS_ECP_C), lost. *)
EcpLight_NoEcpC ==
    [ when    |-> { Term({f}, {}) : f \in
                      { MBEDTLS_PK_PARSE_EC_EXTENDED,
                        MBEDTLS_PK_PARSE_EC_COMPRESSED,
                        MBEDTLS_PSA_BUILTIN_KEY_TYPE_ECC_KEY_PAIR_DERIVE } },
      defines |-> { MBEDTLS_ECP_LIGHT } ]

(* #if defined(MBEDTLS_ECP_C) || defined(MBEDTLS_PK_PARSE_EC_EXTENDED) ||
       defined(MBEDTLS_PK_PARSE_EC_COMPRESSED) ||
       defined(MBEDTLS_PSA_BUILTIN_KEY_TYPE_ECC_KEY_PAIR_DERIVE) *)
EcpLight ==
    [ when    |-> { Term({f}, {}) : f \in
                      { MBEDTLS_ECP_C, MBEDTLS_PK_PARSE_EC_EXTENDED,
                        MBEDTLS_PK_PARSE_EC_COMPRESSED,
                        MBEDTLS_PSA_BUILTIN_KEY_TYPE_ECC_KEY_PAIR_DERIVE } },
      defines |-> { MBEDTLS_ECP_LIGHT } ]

(* PkParseEcCompressed with || written for &&. *)
PkParseEcCompressed_Or ==
    [ when    |-> { Term({MBEDTLS_PK_PARSE_C}, {}),
                    Term({MBEDTLS_ECP_C}, {}) },
      defines |-> { MBEDTLS_PK_PARSE_EC_COMPRESSED } ]

(* #if defined(MBEDTLS_PK_PARSE_C) && defined(MBEDTLS_ECP_C) *)
PkParseEcCompressed ==
    [ when    |-> { Term({MBEDTLS_PK_PARSE_C, MBEDTLS_ECP_C}, {}) },
      defines |-> { MBEDTLS_PK_PARSE_EC_COMPRESSED } ]

(* CanEcdh with the legacy branch conditioned on
   !defined(MBEDTLS_PSA_CRYPTO_CLIENT), a symbol a later block defines,
   instead of !defined(MBEDTLS_USE_PSA_CRYPTO). *)
CanEcdh_NotClient ==
    [ when    |-> { Term({MBEDTLS_USE_PSA_CRYPTO, PSA_WANT_ALG_ECDH}, {}),
                    Term({MBEDTLS_ECDH_C}, {MBEDTLS_PSA_CRYPTO_CLIENT}) },
      defines |-> { MBEDTLS_CAN_ECDH } ]

(* #if (defined(MBEDTLS_USE_PSA_CRYPTO) && defined(PSA_WANT_ALG_ECDH)) ||
       (!defined(MBEDTLS_USE_PSA_CRYPTO) && defined(MBEDTLS_ECDH_C)) *)
CanEcdh ==
    [ when    |-> { Term({MBEDTLS_USE_PSA_CRYPTO, PSA_WANT_ALG_ECDH}, {}),
                    Term({MBEDTLS_ECDH_C}, {MBEDTLS_USE_PSA_CRYPTO}) },
      defines |-> { MBEDTLS_CAN_ECDH } ]

(* #if !defined(MBEDTLS_USE_PSA_CRYPTO) / #if defined(MBEDTLS_ECDSA_C) *)
EcdsaLegacy ==
    [ when    |-> { Term({MBEDTLS_ECDSA_C}, {MBEDTLS_USE_PSA_CRYPTO}) },
      defines |-> { MBEDTLS_PK_CAN_ECDSA_SIGN, MBEDTLS_PK_CAN_ECDSA_VERIFY } ]

(* #else / #if defined(PSA_WANT_ALG_ECDSA) /
   #if defined(PSA_WANT_KEY_TYPE_ECC_KEY_PAIR_BASIC) *)
EcdsaPsaSign ==
    [ when    |-> { Term({MBEDTLS_USE_PSA_CRYPTO, PSA_WANT_ALG_ECDSA,
                          PSA_WANT_KEY_TYPE_ECC_KEY_PAIR_BASIC}, {}) },
      defines |-> { MBEDTLS_PK_CAN_ECDSA_SIGN } ]

(* EcdsaPsaVerify testing the key pair, as the block above it does,
   instead of the public key. *)
EcdsaPsaVerify_KeyPair ==
    [ when    |-> { Term({MBEDTLS_USE_PSA_CRYPTO, PSA_WANT_ALG_ECDSA,
                          PSA_WANT_KEY_TYPE_ECC_KEY_PAIR_BASIC}, {}) },
      defines |-> { MBEDTLS_PK_CAN_ECDSA_VERIFY } ]

(* #else / #if defined(PSA_WANT_ALG_ECDSA) /
   #if defined(PSA_WANT_KEY_TYPE_ECC_PUBLIC_KEY) *)
EcdsaPsaVerify ==
    [ when    |-> { Term({MBEDTLS_USE_PSA_CRYPTO, PSA_WANT_ALG_ECDSA,
                          PSA_WANT_KEY_TYPE_ECC_PUBLIC_KEY}, {}) },
      defines |-> { MBEDTLS_PK_CAN_ECDSA_VERIFY } ]

(* #if defined(MBEDTLS_PK_CAN_ECDSA_VERIFY) ||
       defined(MBEDTLS_PK_CAN_ECDSA_SIGN) *)
EcdsaSome ==
    [ when    |-> { Term({MBEDTLS_PK_CAN_ECDSA_VERIFY}, {}),
                    Term({MBEDTLS_PK_CAN_ECDSA_SIGN}, {}) },
      defines |-> { MBEDTLS_PK_CAN_ECDSA_SOME } ]

(* #if defined(MBEDTLS_PSA_CRYPTO_C) *)
PsaCryptoClient ==
    [ when    |-> { Term({MBEDTLS_PSA_CRYPTO_C}, {}) },
      defines |-> { MBEDTLS_PSA_CRYPTO_CLIENT } ]

(* #if defined(MBEDTLS_PSA_CRYPTO_C) && defined(MBEDTLS_RSA_C) *)
PkFromPsaRsa ==
    [ when    |-> { Term({MBEDTLS_PSA_CRYPTO_C, MBEDTLS_RSA_C}, {}) },
      defines |-> { MBEDTLS_PK_C, MBEDTLS_PK_WRITE_C, MBEDTLS_PK_PARSE_C } ]

(* PkHaveEccKeys with a stray negation:
   defined(MBEDTLS_USE_PSA_CRYPTO) && !defined(PSA_WANT_KEY_TYPE_ECC_PUBLIC_KEY) *)
PkHaveEccKeys_Negated ==
    [ when    |-> { Term({MBEDTLS_ECP_C}, {}),
                    Term({MBEDTLS_USE_PSA_CRYPTO},
                         {PSA_WANT_KEY_TYPE_ECC_PUBLIC_KEY}) },
      defines |-> { MBEDTLS_PK_HAVE_ECC_KEYS } ]

(* #if defined(MBEDTLS_ECP_C) || (defined(MBEDTLS_USE_PSA_CRYPTO) &&
       defined(PSA_WANT_KEY_TYPE_ECC_PUBLIC_KEY)) *)
PkHaveEccKeys ==
    [ when    |-> { Term({MBEDTLS_ECP_C}, {}),
                    Term({MBEDTLS_USE_PSA_CRYPTO,
                          PSA_WANT_KEY_TYPE_ECC_PUBLIC_KEY}, {}) },
      defines |-> { MBEDTLS_PK_HAVE_ECC_KEYS } ]

(* The header with the MBEDTLS_PK_CAN_ECDSA_SOME block placed above the
   blocks that define the symbols it tests. *)
Header_SomeFirst ==
    << MdLightFromMdC, MdLightFromUsers, EcpLight, PkParseEcCompressed,
       CanEcdh, EcdsaSome, EcdsaLegacy, EcdsaPsaSign, EcdsaPsaVerify,
       PsaCryptoClient, PkFromPsaRsa, PkHaveEccKeys >>

(* The blocks in the order the header lists them. *)
Header ==
    << MdLightFromMdC, MdLightFromUsers, EcpLight, PkParseEcCompressed,
       CanEcdh, EcdsaLegacy, EcdsaPsaSign, EcdsaPsaVerify, EcdsaSome,
       PsaCryptoClient, PkFromPsaRsa, PkHaveEccKeys >>

NumBlocks == Len(Header)

(* The value of a block's #if condition against the defined symbols D. *)
Holds(r, D) ==
    \E t \in r.when : t.def \subseteq D /\ t.undef \cap D = {}

(* Evaluate with an #else branch that #undefs the block's symbols. *)
Evaluate_Undef(r, D) ==
    IF Holds(r, D) THEN D \cup r.defines ELSE D \ r.defines

(* The preprocessor evaluating one block: #define when the condition
   holds, skip to #endif otherwise. *)
Evaluate(r, D) == IF Holds(r, D) THEN D \cup r.defines ELSE D

(* One reading of the blocks `order` from position i on. *)
RECURSIVE PassFrom(_, _, _)
PassFrom(order, i, D) ==
    IF i > Len(order) THEN D
    ELSE PassFrom(order, i + 1, Evaluate(order[i], D))

(* The symbols defined after the header, from the configuration D. *)
Preprocess(D) == PassFrom(Header, 1, D)

(***************************************************************************)
(* The translation unit: `base` is the user configuration, `defined` the   *)
(* symbols defined so far, `pc` the next block (0: before the header;      *)
(* Done: past the last block), `guard` the include guard                   *)
(* MBEDTLS_CONFIG_ADJUST_LEGACY_CRYPTO_H, `includes` the number of         *)
(* #include directives of the header processed so far.  `peer` is a second *)
(* translation unit, compiled at the same time with a macro table of its   *)
(* own: a record of its base, defined, pc and guard.                       *)
(***************************************************************************)
Done == NumBlocks + 1

(* The configurations that enable at most n symbols. *)
RECURSIVE Configs(_)
Configs(n) ==
    IF n = 0 THEN { {} }
    ELSE LET S == Configs(n - 1)
         IN  S \cup { B \cup {f} : B \in S, f \in Flags }

BaseSets == Configs(MaxBase)

(* A second translation unit configured with B, before its #include. *)
PeerStart(B) == [base |-> B, defined |-> B, pc |-> 0, guard |-> FALSE]

(* One translation unit only: the second one never starts. *)
Init ==
    /\ base \in BaseSets
    /\ defined = base
    /\ pc = 0
    /\ guard = FALSE
    /\ includes = 0
    /\ peer = PeerStart({})

(* #ifndef MBEDTLS_CONFIG_ADJUST_LEGACY_CRYPTO_H / #define ...: the first
   inclusion defines the guard and enters the header. *)
Include ==
    /\ pc = 0
    /\ ~guard
    /\ guard' = TRUE
    /\ pc' = 1
    /\ includes' = includes + 1
    /\ UNCHANGED <<base, defined, peer>>

(* The block at position i of the header. *)
Directive(i) ==
    /\ pc = i
    /\ guard
    /\ defined' = Evaluate(Header[i], defined)
    /\ pc' = i + 1
    /\ UNCHANGED <<base, guard, includes, peer>>

(* A later inclusion finds the guard defined and skips to the final #endif:
   no block is evaluated a second time. *)
IncludeAgain ==
    /\ pc = Done
    /\ guard
    /\ includes < MaxIncludes
    /\ includes' = includes + 1
    /\ UNCHANGED <<base, defined, pc, guard, peer>>

Next ==
    \/ Include
    \/ \E i \in 1..NumBlocks : Directive(i)
    \/ IncludeAgain

Spec == Init /\ [][Next]_vars

(***************************************************************************)
(* A configuration that also defines a name the header neither tests nor   *)
(* defines, such as a misspelt option.  The header has no #error           *)
(* directive: its blocks are evaluated as for any other configuration.     *)
(***************************************************************************)
UnknownName == "MBEDTLS_NO_SUCH_OPTION"

InitUnknown ==
    /\ base \in { B \cup {UnknownName} : B \in BaseSets }
    /\ defined = base
    /\ pc = 0
    /\ guard = FALSE
    /\ includes = 0
    /\ peer = PeerStart({})

SpecUnknown == InitUnknown /\ [][Next]_vars

(***************************************************************************)
(* Two translation units compiled side by side.  Both read the same header *)
(* text; each has its own macro table.                                     *)
(***************************************************************************)

(* Configurations for the pair, chosen so that every block fires. *)
PairBases ==
    { {},
      {MBEDTLS_MD_C},
      {MBEDTLS_ECDH_C},
      {MBEDTLS_ECDSA_C},
      {MBEDTLS_ECDSA_C, MBEDTLS_USE_PSA_CRYPTO},
      {MBEDTLS_USE_PSA_CRYPTO, PSA_WANT_ALG_ECDH},
      {MBEDTLS_USE_PSA_CRYPTO, PSA_WANT_ALG_ECDSA,
       PSA_WANT_KEY_TYPE_ECC_KEY_PAIR_BASIC, PSA_WANT_KEY_TYPE_ECC_PUBLIC_KEY},
      {MBEDTLS_PK_PARSE_C, MBEDTLS_ECP_C},
      {MBEDTLS_PSA_CRYPTO_C, MBEDTLS_RSA_C, MBEDTLS_ECP_C} }

InitPair ==
    /\ base \in PairBases
    /\ defined = base
    /\ pc = 0
    /\ guard = FALSE
    /\ includes = 0
    /\ peer \in { PeerStart(B) : B \in PairBases }

(* The second translation unit's first inclusion of the header. *)
PeerInclude ==
    /\ peer.pc = 0
    /\ ~peer.guard
    /\ peer' = [peer EXCEPT !.guard = TRUE, !.pc = 1]
    /\ UNCHANGED <<base, defined, pc, guard, includes>>

(* PeerDirective with one macro table for both translation units: the
   condition sees the symbols the other one has defined. *)
PeerDirective_SharedTable(i) ==
    /\ peer.pc = i
    /\ peer.guard
    /\ peer' = [peer EXCEPT
                  !.defined = Evaluate(Header[i], peer.defined \cup defined),
                  !.pc = i + 1]
    /\ UNCHANGED <<base, defined, pc, guard, includes>>

(* The block at position i of the header, in the second translation unit. *)
PeerDirective(i) ==
    /\ peer.pc = i
    /\ peer.guard
    /\ peer' = [peer EXCEPT
                  !.defined = Evaluate(Header[i], peer.defined),
                  !.pc = i + 1]
    /\ UNCHANGED <<base, defined, pc, guard, includes>>

NextPair ==
    \/ Include
    \/ \E i \in 1..NumBlocks : Directive(i)
    \/ IncludeAgain
    \/ PeerInclude
    \/ \E i \in 1..NumBlocks : PeerDirective(i)

SpecPair == InitPair /\ [][NextPair]_vars

TypeOK ==
    /\ base \in SUBSET Flags
    /\ defined \in SUBSET Flags
    /\ pc \in 0..Done
    /\ guard \in BOOLEAN
    /\ includes \in 0..MaxIncludes
    /\ peer.base \in SUBSET Flags
    /\ peer.defined \in SUBSET Flags
    /\ peer.pc \in 0..Done
    /\ peer.guard \in BOOLEAN

(* The actions compute what Preprocess computes. *)
PassIsPreprocess == pc = Done => defined = Preprocess(base)

(***************************************************************************)
(* The closure of a configuration under the blocks: the header is read     *)
(* again and again until a reading defines nothing new.  No block defines  *)
(* MBEDTLS_USE_PSA_CRYPTO, the only symbol tested with !defined, so the    *)
(* readings only grow the set and the limit is its least fixed point.      *)
(***************************************************************************)
RECURSIVE ClosureIn(_, _)
ClosureIn(order, D) ==
    LET E == PassFrom(order, 1, D)
    IN  IF E = D THEN D ELSE ClosureIn(order, E)

Closure(D) == ClosureIn(Header, D)

(* A block whose condition holds in D and that would define a new symbol. *)
Progress(r, D) == Holds(r, D) /\ ~(r.defines \subseteq D)

(* C1: the symbols defined after the header are exactly the least fixed
   point of the blocks over the configuration: every symbol implied
   directly or through a chain of blocks is defined, and nothing else. *)
C1_LeastFixedPoint == pc = Done => defined = Closure(base)

(* The half of C1 that the single reading keeps: nothing is defined that is
   neither configured nor implied. *)
C1_NothingSpurious == defined \subseteq Closure(base)

(* C2: after the header, MBEDTLS_PK_PARSE_C and MBEDTLS_ECP_C both defined,
   by the configuration or by a block, means
   MBEDTLS_PK_PARSE_EC_COMPRESSED is defined. *)
C2_ForwardReference ==
    pc = Done =>
        ( {MBEDTLS_PK_PARSE_C, MBEDTLS_ECP_C} \subseteq defined
            => MBEDTLS_PK_PARSE_EC_COMPRESSED \in defined )

(* C3: taking the symbols defined after the header as a new configuration
   and reading the header over it defines nothing further. *)
C3_Idempotent == pc = Done => Preprocess(defined) = defined

(* Two configurations in the same mode: both define MBEDTLS_USE_PSA_CRYPTO
   or neither does. *)
SameMode(B1, B2) ==
    (MBEDTLS_USE_PSA_CRYPTO \in B1) <=> (MBEDTLS_USE_PSA_CRYPTO \in B2)

(* C4 as stated: for every configuration B1 contained in the configuration
   of this translation unit, the symbols defined after the header from B1
   are among those defined from the larger configuration. *)
C4_Monotone ==
    pc = Done => \A B1 \in SUBSET base : Preprocess(B1) \subseteq defined

(* C4 as amended: the same, for the configurations B1 that agree with the
   larger one on MBEDTLS_USE_PSA_CRYPTO. *)
C4_MonotoneSameMode ==
    pc = Done =>
        \A B1 \in SUBSET base :
            SameMode(B1, base) => Preprocess(B1) \subseteq defined

(* C4: a PSA-mode configuration and a strictly smaller one of the same mode,
   both with derived symbols, the larger deriving more. *)
C4_Witness ==
    /\ pc = Done
    /\ MBEDTLS_USE_PSA_CRYPTO \in base
    /\ \E B1 \in SUBSET base :
          /\ B1 # base
          /\ SameMode(B1, base)
          /\ Preprocess(B1) # B1
          /\ Preprocess(B1) \subseteq defined
          /\ (defined \ base) \ Preprocess(B1) # {}

(* The header's blocks with those at positions i and j exchanged. *)
Swap(i, j) ==
    [ k \in 1..NumBlocks |->
        IF k = i THEN Header[j] ELSE IF k = j THEN Header[i] ELSE Header[k] ]

Orders == { Swap(i, j) : i, j \in 1..NumBlocks }

(* C5: reading the blocks in another order gives the symbols that the
   header's own order gives. *)
C5_OrderIndependent ==
    pc = Done => \A o \in Orders : PassFrom(o, 1, base) = defined

(* What C5 says of the fixed point rather than of one reading: reading the
   blocks over and over, in any of the orders, ends in the same symbols. *)
C5_ClosureOrderIndependent ==
    pc = Done => \A o \in Orders : ClosureIn(o, base) = Closure(base)

(* C6: the evaluation stops exactly when a reading of all the blocks defines
   nothing new: once past the last block, no block's condition holds with a
   symbol of its own still undefined; and the blocks were read no more
   often than there are symbols. *)
C6_StopsAtFixedPoint ==
    pc = Done =>
        /\ \A i \in 1..NumBlocks : ~Progress(Header[i], defined)
        /\ includes <= Cardinality(Flags)

(* C7: from the configuration {MBEDTLS_PK_PARSE_C, MBEDTLS_ECP_C} the
   header defines MBEDTLS_PK_PARSE_EC_COMPRESSED and, besides the
   configuration, only the symbols it implies; from MBEDTLS_PK_PARSE_C
   alone or MBEDTLS_ECP_C alone it leaves MBEDTLS_PK_PARSE_EC_COMPRESSED
   undefined. *)
C7_Conjunctive ==
    pc = Done =>
        /\ base = {MBEDTLS_PK_PARSE_C, MBEDTLS_ECP_C} =>
              /\ MBEDTLS_PK_PARSE_EC_COMPRESSED \in defined
              /\ defined = { MBEDTLS_PK_PARSE_C, MBEDTLS_ECP_C,
                              MBEDTLS_PK_PARSE_EC_COMPRESSED,
                              MBEDTLS_ECP_LIGHT, MBEDTLS_PK_HAVE_ECC_KEYS }
              /\ defined = Closure(base)
        /\ base = {MBEDTLS_PK_PARSE_C} =>
              MBEDTLS_PK_PARSE_EC_COMPRESSED \notin defined
        /\ base = {MBEDTLS_ECP_C} =>
              MBEDTLS_PK_PARSE_EC_COMPRESSED \notin defined

(* C7: the header read to its end over {MBEDTLS_PK_PARSE_C, MBEDTLS_ECP_C},
   the conjunctive block having fired. *)
C7_Witness ==
    /\ pc = Done
    /\ base = {MBEDTLS_PK_PARSE_C, MBEDTLS_ECP_C}
    /\ MBEDTLS_PK_PARSE_EC_COMPRESSED \in defined

(* The symbols C8 lists as each enabling MBEDTLS_MD_LIGHT. *)
MdLightCauses ==
    { MBEDTLS_MD_C, MBEDTLS_ECJPAKE_C, MBEDTLS_PEM_PARSE_C,
      MBEDTLS_ENTROPY_C, MBEDTLS_PK_C, MBEDTLS_PKCS12_C, MBEDTLS_RSA_C,
      MBEDTLS_SSL_TLS_C, MBEDTLS_X509_USE_C, MBEDTLS_X509_CREATE_C }

(* C8: from a configuration of one of the ten symbols alone the header
   defines MBEDTLS_MD_LIGHT; from the empty configuration it defines
   nothing at all. *)
C8_Disjunctive ==
    pc = Done =>
        /\ \A x \in MdLightCauses :
              base = {x} => MBEDTLS_MD_LIGHT \in defined
        /\ base = {} => defined = {}

(* C8: the header read to its end over the last of the ten symbols alone. *)
C8_Witness ==
    /\ pc = Done
    /\ base = {MBEDTLS_X509_CREATE_C}
    /\ defined = {MBEDTLS_X509_CREATE_C, MBEDTLS_MD_LIGHT}

(* C9: from {MBEDTLS_ECDSA_C} alone the header defines
   MBEDTLS_PK_CAN_ECDSA_SIGN, MBEDTLS_PK_CAN_ECDSA_VERIFY and
   MBEDTLS_PK_CAN_ECDSA_SOME; and whatever the configuration,
   MBEDTLS_PK_CAN_ECDSA_SOME is defined after the header whenever
   MBEDTLS_PK_CAN_ECDSA_SIGN or MBEDTLS_PK_CAN_ECDSA_VERIFY is. *)
C9_Transitive ==
    pc = Done =>
        /\ base = {MBEDTLS_ECDSA_C} =>
              { MBEDTLS_ECDSA_C, MBEDTLS_PK_CAN_ECDSA_SIGN,
                MBEDTLS_PK_CAN_ECDSA_VERIFY, MBEDTLS_PK_CAN_ECDSA_SOME }
                  \subseteq defined
        /\ ( MBEDTLS_PK_CAN_ECDSA_SIGN \in defined
              \/ MBEDTLS_PK_CAN_ECDSA_VERIFY \in defined )
              => MBEDTLS_PK_CAN_ECDSA_SOME \in defined

(* C9: the two-hop chain from MBEDTLS_ECDSA_C alone has run. *)
C9_Witness ==
    /\ pc = Done
    /\ base = {MBEDTLS_ECDSA_C}
    /\ MBEDTLS_PK_CAN_ECDSA_SIGN \in defined
    /\ MBEDTLS_PK_CAN_ECDSA_SOME \in defined

(* C10: after the header, MBEDTLS_MD_C defined implies MBEDTLS_MD_LIGHT
   defined; MBEDTLS_PK_C defined implies MBEDTLS_MD_LIGHT defined;
   MBEDTLS_ECP_C or MBEDTLS_PK_PARSE_EC_COMPRESSED defined implies
   MBEDTLS_ECP_LIGHT defined; MBEDTLS_PSA_CRYPTO_C defined implies
   MBEDTLS_PSA_CRYPTO_CLIENT defined; whether the trigger was configured
   or defined by a block. *)
C10_LightCoversFull ==
    pc = Done =>
        /\ MBEDTLS_MD_C \in defined => MBEDTLS_MD_LIGHT \in defined
        /\ MBEDTLS_PK_C \in defined => MBEDTLS_MD_LIGHT \in defined
        /\ ( MBEDTLS_ECP_C \in defined
              \/ MBEDTLS_PK_PARSE_EC_COMPRESSED \in defined )
              => MBEDTLS_ECP_LIGHT \in defined
        /\ MBEDTLS_PSA_CRYPTO_C \in defined
              => MBEDTLS_PSA_CRYPTO_CLIENT \in defined

(* C10: MBEDTLS_PK_C defined by the last-but-one block, below the block
   that tests it for MBEDTLS_MD_LIGHT, with the light and client symbols
   all defined by the header. *)
C10_Witness ==
    /\ pc = Done
    /\ MBEDTLS_ECP_C \in base
    /\ MBEDTLS_PK_C \in defined \ base
    /\ MBEDTLS_MD_LIGHT \in defined \ base
    /\ MBEDTLS_ECP_LIGHT \in defined \ base
    /\ MBEDTLS_PSA_CRYPTO_CLIENT \in defined \ base

(* C11: with the two translation units' steps interleaved in any way, each
   ends with the symbols it would define when compiled alone, and a step
   that changes one unit's symbols leaves the other unit's symbols as they
   were. *)
C11_RunsIndependent ==
    /\ [](pc = Done => defined = Preprocess(base))
    /\ [](peer.pc = Done => peer.defined = Preprocess(peer.base))
    /\ [][ /\ (defined' # defined => peer' = peer)
           /\ (peer' # peer => defined' = defined /\ pc' = pc)
           /\ base' = base /\ peer.base' = peer.base ]_vars

(* C11: both units have read the header to its end, each with symbols
   defined by its blocks that the other unit does not have. *)
C11_Witness ==
    /\ pc = Done /\ peer.pc = Done
    /\ defined # base /\ peer.defined # peer.base
    /\ defined \ peer.defined # {}
    /\ peer.defined \ defined # {}

(* C12: a configuration that names a symbol outside the vocabulary is
   reported as an error: the evaluation never ends with a set of defined
   symbols for it, and the name is not carried along unnoticed. *)
C12_UnknownRejected ==
    ~(base \subseteq Flags) => pc # Done

(* The symbols some block of the header defines. *)
Consequents == UNION { Header[i].defines : i \in 1..NumBlocks }

(* C13: no step of the evaluation undefines a symbol; so every symbol of
   the configuration is defined after the header, and a symbol that no
   block defines is defined after the header iff the configuration defines
   it. *)
C13_OneDirectional ==
    /\ [][defined \subseteq defined']_vars
    /\ [](pc = Done => base \subseteq defined)
    /\ [](pc = Done =>
            \A f \in Flags \ Consequents : f \in defined <=> f \in base)

(* C13: the header read to its end, having defined symbols, over a
   configuration that sets both a symbol some block defines and one that
   no block defines. *)
C13_Witness ==
    /\ pc = Done
    /\ defined # base
    /\ base \cap Consequents # {}
    /\ base \ Consequents # {}
    /\ base \subseteq defined

(* C14: for a configuration that sets neither MBEDTLS_PK_CAN_ECDSA_SIGN
   nor MBEDTLS_PK_CAN_ECDSA_VERIFY itself, after the header
   MBEDTLS_PK_CAN_ECDSA_SIGN is defined iff (no MBEDTLS_USE_PSA_CRYPTO and
   MBEDTLS_ECDSA_C) or (MBEDTLS_USE_PSA_CRYPTO, PSA_WANT_ALG_ECDSA and
   PSA_WANT_KEY_TYPE_ECC_KEY_PAIR_BASIC), and MBEDTLS_PK_CAN_ECDSA_VERIFY
   iff (no MBEDTLS_USE_PSA_CRYPTO and MBEDTLS_ECDSA_C) or
   (MBEDTLS_USE_PSA_CRYPTO, PSA_WANT_ALG_ECDSA and
   PSA_WANT_KEY_TYPE_ECC_PUBLIC_KEY); the condition of the legacy branch
   and a condition of the PSA branch never hold together; and under
   MBEDTLS_USE_PSA_CRYPTO, without PSA_WANT_ALG_ECDSA, MBEDTLS_ECDSA_C
   derives neither symbol. *)
C14_EcdsaByMode ==
    /\ ~( Holds(EcdsaLegacy, defined)
           /\ (Holds(EcdsaPsaSign, defined) \/ Holds(EcdsaPsaVerify, defined)) )
    /\ ( pc = Done
         /\ base \cap {MBEDTLS_PK_CAN_ECDSA_SIGN, MBEDTLS_PK_CAN_ECDSA_VERIFY} = {} )
        =>
        /\ MBEDTLS_PK_CAN_ECDSA_SIGN \in defined <=>
              \/ /\ MBEDTLS_USE_PSA_CRYPTO \notin defined
                 /\ MBEDTLS_ECDSA_C \in defined
              \/ /\ MBEDTLS_USE_PSA_CRYPTO \in defined
                 /\ PSA_WANT_ALG_ECDSA \in defined
                 /\ PSA_WANT_KEY_TYPE_ECC_KEY_PAIR_BASIC \in defined
        /\ MBEDTLS_PK_CAN_ECDSA_VERIFY \in defined <=>
              \/ /\ MBEDTLS_USE_PSA_CRYPTO \notin defined
                 /\ MBEDTLS_ECDSA_C \in defined
              \/ /\ MBEDTLS_USE_PSA_CRYPTO \in defined
                 /\ PSA_WANT_ALG_ECDSA \in defined
                 /\ PSA_WANT_KEY_TYPE_ECC_PUBLIC_KEY \in defined
        /\ ( {MBEDTLS_USE_PSA_CRYPTO, MBEDTLS_ECDSA_C} \subseteq base
             /\ PSA_WANT_ALG_ECDSA \notin base )
              => /\ MBEDTLS_PK_CAN_ECDSA_SIGN \notin defined
                 /\ MBEDTLS_PK_CAN_ECDSA_VERIFY \notin defined

(* C14: the PSA branch has derived MBEDTLS_PK_CAN_ECDSA_SIGN alone: the
   key pair is wanted, the public key is not. *)
C14_Witness ==
    /\ pc = Done
    /\ base = { MBEDTLS_USE_PSA_CRYPTO, PSA_WANT_ALG_ECDSA,
                PSA_WANT_KEY_TYPE_ECC_KEY_PAIR_BASIC }
    /\ MBEDTLS_PK_CAN_ECDSA_SIGN \in defined
    /\ MBEDTLS_PK_CAN_ECDSA_VERIFY \notin defined

(* The symbols a block's condition tests with defined(), and those it
   tests with !defined(). *)
TestedDefined(r) == UNION { t.def : t \in r.when }

TestedUndefined(r) == UNION { t.undef : t \in r.when }

(* No block of the header tests a symbol that it defines. *)
NoSelfReference ==
    \A i \in 1..NumBlocks :
        Header[i].defines \cap
            (TestedDefined(Header[i]) \cup TestedUndefined(Header[i])) = {}

(* C16: MBEDTLS_USE_PSA_CRYPTO is the only symbol a block tests with
   !defined() and no block defines it, so no step changes whether it is
   defined; and a block condition that holds before a step holds after
   it. *)
C16_ConditionsStayTrue ==
    /\ [](UNION { TestedUndefined(Header[i]) : i \in 1..NumBlocks }
             = {MBEDTLS_USE_PSA_CRYPTO})
    /\ [](MBEDTLS_USE_PSA_CRYPTO \notin Consequents)
    /\ [][ (MBEDTLS_USE_PSA_CRYPTO \in defined')
             <=> (MBEDTLS_USE_PSA_CRYPTO \in defined) ]_vars
    /\ [][ \A i \in 1..NumBlocks :
             Holds(Header[i], defined) => Holds(Header[i], defined') ]_vars

(* C16: a condition with !defined(MBEDTLS_USE_PSA_CRYPTO) held for the
   configuration and still holds past the last block, other blocks having
   defined symbols meanwhile. *)
C16_Witness ==
    /\ pc = Done
    /\ Holds(CanEcdh, base)
    /\ Holds(CanEcdh, defined)
    /\ MBEDTLS_USE_PSA_CRYPTO \notin defined
    /\ MBEDTLS_PSA_CRYPTO_CLIENT \in defined \ base

(* The header's blocks from the last to the first. *)
Reversed == [ k \in 1..NumBlocks |-> Header[NumBlocks + 1 - k] ]

(* The blocks of `order` read from position k on, wrapping around. *)
Rotation(order, k) ==
    [ j \in 1..NumBlocks |-> order[((j + k - 2) % NumBlocks) + 1] ]

(* The header's order and its reverse, each started at every block. *)
PassOrders ==
    { Rotation(Header, k) : k \in 1..NumBlocks }
        \cup { Rotation(Reversed, k) : k \in 1..NumBlocks }

(* Every block evaluated against the same symbols D.  A reading of the
   blocks one after the other, in any order, defines at least these:
   a block whose condition holds in D still finds it true at its turn. *)
ParallelStep(D) ==
    D \cup UNION { Header[i].defines :
                     i \in { k \in 1..NumBlocks : Holds(Header[k], D) } }

(* C17: whatever the configuration and the order of the blocks, only the
   first two readings of the blocks define a symbol, so an evaluation
   repeated until a reading defines nothing stops within three readings;
   and in the header's own order a second reading defines nothing but
   MBEDTLS_PK_PARSE_EC_COMPRESSED. *)
C17_TwoPassesSuffice ==
    pc = Done =>
        /\ \A o \in PassOrders :
              LET p2 == PassFrom(o, 1, PassFrom(o, 1, base))
              IN  \A i \in 1..NumBlocks : ~Progress(o[i], p2)
        /\ LET q2 == ParallelStep(ParallelStep(base))
           IN  \A i \in 1..NumBlocks : ~Progress(Header[i], q2)
        /\ Preprocess(defined) \ defined
              \subseteq {MBEDTLS_PK_PARSE_EC_COMPRESSED}
        /\ Preprocess(Preprocess(defined)) = Preprocess(defined)

(* C17: the header read to its end over a configuration for which a second
   reading would define MBEDTLS_PK_PARSE_EC_COMPRESSED. *)
C17_Witness ==
    /\ pc = Done
    /\ Preprocess(defined) \ defined = {MBEDTLS_PK_PARSE_EC_COMPRESSED}

====
